---- MODULE Spec2Model ----
(***************************************************************************)
(* A model of the dependency parser's training controller                  *)
(* (stanfordnlp/models/parser.py: main, train, evaluate) and of the loss   *)
(* and decoding head of the scorer (stanfordnlp/models/depparse/model.py:  *)
(* Parser.forward).                                                        *)
(*                                                                         *)
(* The controller is a sequential program: pc is its position.  The        *)
(* collaborators that are not part of the repository's sources (Trainer,   *)
(* DataLoader, scorer) are modelled by the calls made on them: a counter   *)
(* or a log per method, and a nondeterministic result where the caller     *)
(* reads one (the dev score).                                              *)
(***************************************************************************)
EXTENDS Integers, Sequences, FiniteSets

\* ---------------------------------------------------------------- bounds
\* train(): the largest max_steps, eval_interval and max_steps_before_stop,
\* the largest dev score and the largest number of training batches.
MaxMaxSteps == 4
MaxEvalInterval == 3
MaxPatience == 2
MaxScore == 2
MaxBatches == 2
\* Parser.forward: the padded length of a row of the recurrent part (root
\* included), the seeds of the scorers' outputs, the invocations.
MaxT == 3
MaxSeed == 2
MaxCalls == 2

\* The dev scores the scorer can return (an opaque numeric oracle; only their
\* order is read by train()).
Scores == 0..MaxScore

\* The unfreeze schedules tried (--unfreeze_points, any list of integers):
\* empty, a single point, increasing points, a repeated point, a point that
\* is never reached because it comes after a later one.
UnfreezeSchedules ==
    {<< >>, <<0>>, <<1, 2>>, <<1, 1>>, <<2, 1>>}

\* --num_layers: fewer layers than scheduled points, and as many.
NumLayersChoices == {1, 2}

VARIABLES
    mode,               \* args['mode']: "train" or "predict"
    args,               \* the configuration read by train() / evaluate()
    pc,                 \* position of the controller
    i,                  \* index of the current batch in the epoch (enumerate)
    global_step,
    dev_score_history,
    best_dev_preds,     \* 0: [] ; s > 0: the dev_preds of the round at step s
    last_best_step,
    using_amsgrad,
    unfreeze_p,
    do_break,
    n_updates,          \* calls of trainer.update
    optimizer,          \* trainer.optimizer: "adam" or "amsgrad"
    switch_log,         \* the global_step of every assignment of a new optimizer
    checkpoint,         \* model_file: 0 none, s > 0 the parameters saved at step s
    n_saves,            \* calls of trainer.save
    unfreeze_log,       \* calls of trainer.unfreeze: <<layer, k, step>>, lr = lr * lr_shrink^k
    eval_log,           \* the global_step of every evaluation round run
    n_reshuffles,       \* calls of train_batch.reshuffle
    term_reason,        \* "none", "max-steps", "patience-exhausted"
    outcome,            \* "running", "exit0", "ok", "ValueError"
    report,             \* <<best_f, best_eval>> of the final report, << >> before
    n_predict,          \* evaluate(): calls of trainer.predict
    written,            \* evaluate(): write_conll done
    score_reported,     \* evaluate(): scorer.score called and the score printed
    margs,              \* Parser.args: linearization, distance, deprel_loss
    training,           \* Parser.training, set by the caller before each invocation
    mode_log,           \* the training flag of every invocation of forward so far
    f_pc,               \* position in Parser.forward
    batch,              \* the invocation's inputs (one row of the batch)
    unlabeled_scores,   \* forward's locals, << >> while unassigned
    deprel_scores,
    lin_scores,
    dist_kld,
    unlabeled_target,
    loss,               \* forward's first return value
    preds,              \* forward's second return value
    lstm_type,          \* Parser.args['lstm_type']: "bihlstm", "hlstm", "wdlstm"
    l_pc,               \* position in lines 157-180 of Parser.forward
    sentlens,           \* the true length of the row, root included
    lstm_inputs,        \* forward's locals of lines 157-180, << >> while unassigned
    rev_lstm_inputs,
    hid_forward,
    hid_backward,
    lstm_outputs

ctl_vars == <<mode, args, pc, i, global_step, dev_score_history, best_dev_preds,
              last_best_step, using_amsgrad, unfreeze_p, do_break, n_updates,
              optimizer, switch_log, checkpoint, n_saves, unfreeze_log, eval_log,
              n_reshuffles, term_reason, outcome, report, n_predict, written,
              score_reported>>

fwd_vars == <<margs, training, mode_log, f_pc, batch, unlabeled_scores,
              deprel_scores, lin_scores, dist_kld, unlabeled_target, loss, preds>>

lstm_vars == <<lstm_type, l_pc, sentlens, lstm_inputs, rev_lstm_inputs,
               hid_forward, hid_backward, lstm_outputs>>

vars == <<ctl_vars, fwd_vars, lstm_vars>>

\* ------------------------------------------------------------- helpers
RECURSIVE SeqMax(_)
\* Python's max() of a non-empty list.
SeqMax(s) ==
    IF Len(s) = 1 THEN s[1]
    ELSE LET m == SeqMax(Tail(s)) IN IF s[1] >= m THEN s[1] ELSE m

\* numpy.argmax: the (0-based) index of the first occurrence of the maximum.
ArgMax(s) ==
    (CHOOSE k \in 1..Len(s) :
        /\ s[k] = SeqMax(s)
        /\ \A j \in 1..(k - 1) : s[j] # SeqMax(s)) - 1

IsPrefix(s, t) ==
    /\ Len(s) <= Len(t)
    /\ \A k \in 1..Len(s) : s[k] = t[k]

\* ------------------------------------------------------------- Init
ArgsSet ==
    [ max_steps : 1..MaxMaxSteps,
      eval_interval : 1..MaxEvalInterval,
      max_steps_before_stop : 1..MaxPatience,
      unfreeze_points : UnfreezeSchedules,
      num_layers : NumLayersChoices,
      n_train : 0..MaxBatches,      \* len(train_batch)
      n_dev : 0..1,                 \* len(dev_batch)
      n_eval : 0..1,                \* evaluate(): len(batch)
      gold_file : BOOLEAN ]         \* evaluate(): args['gold_file'] is not None

\* main(): the mode selects train(args) or evaluate(args).  The options that
\* the selected function never reads are fixed, so that no two initial
\* states differ only in them.
InitArgs ==
    \/ /\ mode = "train"
       /\ args \in {a \in ArgsSet : a.n_eval = 0 /\ a.gold_file}
    \/ /\ mode = "predict"
       /\ args \in {a \in ArgsSet :
                      /\ a.max_steps = 1 /\ a.eval_interval = 1
                      /\ a.max_steps_before_stop = 1
                      /\ a.unfreeze_points = << >>
                      /\ a.num_layers = 1
                      /\ a.n_train = 0 /\ a.n_dev = 0}

\* Lines 176-189: the loop state of train() before the first step (and the
\* calls made on the collaborators so far: none).
CtlZero ==
    /\ i = 0
    /\ global_step = 0
    /\ dev_score_history = << >>
    /\ best_dev_preds = 0
    /\ last_best_step = 0
    /\ using_amsgrad = FALSE
    /\ unfreeze_p = 0
    /\ do_break = FALSE
    /\ n_updates = 0
    /\ optimizer = "adam"
    /\ switch_log = << >>
    /\ checkpoint = 0
    /\ n_saves = 0
    /\ unfreeze_log = << >>
    /\ eval_log = << >>
    /\ n_reshuffles = 0
    /\ term_reason = "none"
    /\ outcome = "running"
    /\ report = << >>
    /\ n_predict = 0
    /\ written = FALSE
    /\ score_reported = FALSE

\* A local of forward that has not been assigned.
Unassigned == << >>

\* forward's loss before it is assigned.
NoLoss == [tensor |-> FALSE, terms |-> {}, div |-> 0]

\* forward's locals at the start of an invocation.
FwdLocalsFresh ==
    /\ unlabeled_scores = Unassigned
    /\ deprel_scores = Unassigned
    /\ lin_scores = Unassigned
    /\ dist_kld = Unassigned
    /\ unlabeled_target = Unassigned
    /\ loss = NoLoss
    /\ preds = Unassigned

\* The scorer is not invoked in the controller's specification.
FwdOff ==
    /\ margs = [linearization |-> FALSE, distance |-> FALSE, deprel_loss |-> FALSE]
    /\ training = FALSE
    /\ mode_log = << >>
    /\ f_pc = "off"
    /\ batch = Unassigned
    /\ FwdLocalsFresh

\* The locals of lines 157-180 at the start of an invocation.
LstmLocalsFresh ==
    /\ sentlens = 0
    /\ lstm_inputs = Unassigned
    /\ rev_lstm_inputs = Unassigned
    /\ hid_forward = Unassigned
    /\ hid_backward = Unassigned
    /\ lstm_outputs = Unassigned

\* The recurrent stacks are not run in the controller's and the scorer's
\* specifications.
LstmOff ==
    /\ lstm_type = "bihlstm"
    /\ l_pc = "off"
    /\ LstmLocalsFresh

Init ==
    /\ InitArgs
    /\ pc = "main"
    /\ CtlZero
    /\ FwdOff
    /\ LstmOff

\* ------------------------------------------------------------- train()
train_state == <<global_step, dev_score_history, best_dev_preds, last_best_step,
                 using_amsgrad, unfreeze_p, do_break, n_updates, optimizer,
                 switch_log, checkpoint, n_saves, unfreeze_log, eval_log,
                 n_reshuffles, term_reason, report>>
eval_state == <<n_predict, written, score_reported>>

\* main(), lines 114-117.
Main ==
    /\ pc = "main"
    /\ pc' = IF mode = "train" THEN "train" ELSE "evaluate"
    /\ UNCHANGED <<fwd_vars, lstm_vars, mode, args, i, outcome, train_state, eval_state>>

\* Line 158: the language has no training or no dev data.
NoData == args.n_train = 0 \/ args.n_dev = 0

\* Lines 157-160: skip training, sys.exit(0).
TrainSkip ==
    /\ pc = "train"
    /\ NoData
    /\ outcome' = "exit0"
    /\ pc' = "exited"
    /\ UNCHANGED <<fwd_vars, lstm_vars, mode, args, i, train_state, eval_state>>

\* Lines 162-192: the trainer is built, the loop state is initialised and the
\* first epoch begins.
TrainStart ==
    /\ pc = "train"
    /\ ~NoData
    /\ i' = 0
    /\ pc' = "fetch"
    /\ UNCHANGED <<fwd_vars, lstm_vars, mode, args, outcome, train_state, eval_state>>

\* Line 192: the for loop takes batch i of the epoch.
ForBatch ==
    /\ pc = "fetch"
    /\ i < args.n_train
    /\ pc' = "unfreeze"
    /\ UNCHANGED <<fwd_vars, lstm_vars, mode, args, i, outcome, train_state, eval_state>>

\* Line 192: the epoch is exhausted, the for loop ends without a break.
EpochExhausted ==
    /\ pc = "fetch"
    /\ i >= args.n_train
    /\ pc' = "epoch_end"
    /\ UNCHANGED <<fwd_vars, lstm_vars, mode, args, i, outcome, train_state, eval_state>>

\* Line 193: the condition of the unfreeze loop.
UnfreezeDue ==
    /\ unfreeze_p < Len(args.unfreeze_points)
    /\ global_step = args.unfreeze_points[unfreeze_p + 1]

UnfreezeLayer_OffByOne == args.num_layers - unfreeze_p

\* Line 194: the layer thawed by the next unfreeze.
UnfreezeLayer == args.num_layers - 1 - unfreeze_p

\* Line 194: the power of lr_shrink in the thawed layer's learning rate.
UnfreezeLrPow == unfreeze_p + 1

\* Lines 193-195: one iteration of the unfreeze loop.
Unfreeze ==
    /\ pc = "unfreeze"
    /\ UnfreezeDue
    /\ unfreeze_log' = Append(unfreeze_log, <<UnfreezeLayer, UnfreezeLrPow, global_step>>)
    /\ unfreeze_p' = unfreeze_p + 1
    /\ UNCHANGED <<fwd_vars, lstm_vars, mode, args, pc, i, outcome, global_step, dev_score_history,
                   best_dev_preds, last_best_step, using_amsgrad, do_break,
                   n_updates, optimizer, switch_log, checkpoint, n_saves, eval_log,
                   n_reshuffles, term_reason, report, eval_state>>

\* Lines 197-206: the update step.
Update ==
    /\ pc = "unfreeze"
    /\ ~UnfreezeDue
    /\ global_step' = global_step + 1
    /\ n_updates' = n_updates + 1
    /\ pc' = "eval"
    /\ UNCHANGED <<fwd_vars, lstm_vars, mode, args, i, outcome, dev_score_history, best_dev_preds,
                   last_best_step, using_amsgrad, unfreeze_p, do_break, optimizer,
                   switch_log, checkpoint, n_saves, unfreeze_log, eval_log,
                   n_reshuffles, term_reason, report, eval_state>>

EvalDue_Always == TRUE

EvalDue_OffByOne == (global_step + 1) % args.eval_interval = 0

\* Line 208: an evaluation round is due.
EvalDue == global_step % args.eval_interval = 0

IsNewBest_NotWorse(dev_score) ==
    Len(dev_score_history) = 0 \/ dev_score >= SeqMax(dev_score_history)

\* Line 235: the new dev score is a new best.
IsNewBest(dev_score) ==
    Len(dev_score_history) = 0 \/ dev_score > SeqMax(dev_score_history)

\* Lines 208-242: the evaluation round.  dev_score is what the scorer returns
\* for the dev predictions of this round.
Evaluate ==
    /\ pc = "eval"
    /\ EvalDue
    /\ \E dev_score \in Scores :
        /\ IF IsNewBest(dev_score)
           THEN /\ last_best_step' = global_step
                /\ checkpoint' = global_step
                /\ n_saves' = n_saves + 1
                /\ best_dev_preds' = global_step
           ELSE UNCHANGED <<last_best_step, checkpoint, n_saves, best_dev_preds>>
        /\ dev_score_history' = Append(dev_score_history, dev_score)
    /\ eval_log' = Append(eval_log, global_step)
    /\ pc' = "patience"
    /\ UNCHANGED <<fwd_vars, lstm_vars, mode, args, i, outcome, global_step, using_amsgrad, unfreeze_p,
                   do_break, n_updates, optimizer, switch_log, unfreeze_log,
                   n_reshuffles, term_reason, report, eval_state>>

\* Line 208, condition false.
NoEvaluate ==
    /\ pc = "eval"
    /\ ~EvalDue
    /\ pc' = "patience"
    /\ UNCHANGED <<fwd_vars, lstm_vars, mode, args, i, outcome, train_state, eval_state>>

PatienceReached_Late == global_step - last_best_step > args.max_steps_before_stop

\* Line 244: no new best for max_steps_before_stop steps.
PatienceReached == global_step - last_best_step >= args.max_steps_before_stop

FirstStall_Always == TRUE

\* Line 245: the optimizer has not been switched yet.
FirstStall == ~using_amsgrad

\* Lines 245-249: first time, switch the optimizer to AMSGrad.
SwitchAMSGrad ==
    /\ pc = "patience"
    /\ PatienceReached
    /\ FirstStall
    /\ last_best_step' = global_step
    /\ using_amsgrad' = TRUE
    /\ optimizer' = "amsgrad"
    /\ switch_log' = Append(switch_log, global_step)
    /\ pc' = "maxcheck"
    /\ UNCHANGED <<fwd_vars, lstm_vars, mode, args, i, outcome, global_step, dev_score_history,
                   best_dev_preds, unfreeze_p, do_break, n_updates, checkpoint,
                   n_saves, unfreeze_log, eval_log, n_reshuffles, term_reason,
                   report, eval_state>>

\* Lines 250-252: second time, leave the loop.
PatienceStop ==
    /\ pc = "patience"
    /\ PatienceReached
    /\ ~FirstStall
    /\ do_break' = TRUE
    /\ term_reason' = "patience-exhausted"
    /\ pc' = "epoch_end"
    /\ UNCHANGED <<fwd_vars, lstm_vars, mode, args, i, outcome, global_step, dev_score_history,
                   best_dev_preds, last_best_step, using_amsgrad, unfreeze_p,
                   n_updates, optimizer, switch_log, checkpoint, n_saves,
                   unfreeze_log, eval_log, n_reshuffles, report, eval_state>>

\* Line 244, condition false.
PatienceOk ==
    /\ pc = "patience"
    /\ ~PatienceReached
    /\ pc' = "maxcheck"
    /\ UNCHANGED <<fwd_vars, lstm_vars, mode, args, i, outcome, train_state, eval_state>>

MaxStepsReached_Late == global_step > args.max_steps

\* Line 254: the step ceiling.
MaxStepsReached == global_step >= args.max_steps

\* Lines 254-256: leave the loop at the step ceiling.
MaxStepsStop ==
    /\ pc = "maxcheck"
    /\ MaxStepsReached
    /\ do_break' = TRUE
    /\ term_reason' = "max-steps"
    /\ pc' = "epoch_end"
    /\ UNCHANGED <<fwd_vars, lstm_vars, mode, args, i, outcome, global_step, dev_score_history,
                   best_dev_preds, last_best_step, using_amsgrad, unfreeze_p,
                   n_updates, optimizer, switch_log, checkpoint, n_saves,
                   unfreeze_log, eval_log, n_reshuffles, report, eval_state>>

\* Lines 254, 192: below the ceiling, the body ends and the for loop advances.
NextBatch ==
    /\ pc = "maxcheck"
    /\ ~MaxStepsReached
    /\ i' = i + 1
    /\ pc' = "fetch"
    /\ UNCHANGED <<fwd_vars, lstm_vars, mode, args, outcome, train_state, eval_state>>

\* Lines 258-259: the loop was left by a break.
LeaveLoop ==
    /\ pc = "epoch_end"
    /\ do_break
    /\ pc' = "report"
    /\ UNCHANGED <<fwd_vars, lstm_vars, mode, args, i, outcome, train_state, eval_state>>

\* Lines 261, 190-192: reshuffle and start the next epoch.
Reshuffle ==
    /\ pc = "epoch_end"
    /\ ~do_break
    /\ n_reshuffles' = n_reshuffles + 1
    /\ i' = 0
    /\ pc' = "fetch"
    /\ UNCHANGED <<fwd_vars, lstm_vars, mode, args, outcome, global_step, dev_score_history,
                   best_dev_preds, last_best_step, using_amsgrad, unfreeze_p,
                   do_break, n_updates, optimizer, switch_log, checkpoint, n_saves,
                   unfreeze_log, eval_log, term_reason, report, eval_state>>

\* Lines 263-266: the final report.  max() of an empty list raises ValueError.
Report ==
    /\ pc = "report"
    /\ IF Len(dev_score_history) = 0
       THEN /\ outcome' = "ValueError"
            /\ report' = report
       ELSE /\ outcome' = "ok"
            /\ report' = <<SeqMax(dev_score_history) * 100,
                           (ArgMax(dev_score_history) + 1) * args.eval_interval>>
    /\ pc' = "exited"
    /\ UNCHANGED <<fwd_vars, lstm_vars, mode, args, i, global_step, dev_score_history, best_dev_preds,
                   last_best_step, using_amsgrad, unfreeze_p, do_break, n_updates,
                   optimizer, switch_log, checkpoint, n_saves, unfreeze_log,
                   eval_log, n_reshuffles, term_reason, eval_state>>

\* ------------------------------------------------------------- evaluate()
\* Lines 296-300: one prediction pass over the batches of the split.
EvalPredict ==
    /\ pc = "evaluate"
    /\ args.n_eval > 0
    /\ n_predict' = args.n_eval
    /\ pc' = "write"
    /\ UNCHANGED <<fwd_vars, lstm_vars, mode, args, i, outcome, train_state, written, score_reported>>

\* Lines 301-303: no batch, no prediction pass.
EvalSkip ==
    /\ pc = "evaluate"
    /\ args.n_eval = 0
    /\ pc' = "write"
    /\ UNCHANGED <<fwd_vars, lstm_vars, mode, args, i, outcome, train_state, eval_state>>

\* Lines 305-307: the predictions are written to the output file.
EvalWrite ==
    /\ pc = "write"
    /\ written' = TRUE
    /\ pc' = "score"
    /\ UNCHANGED <<fwd_vars, lstm_vars, mode, args, i, outcome, train_state, n_predict, score_reported>>

\* Lines 309-313: the output file is scored against the gold file and the
\* score is printed.
EvalScore ==
    /\ pc = "score"
    /\ args.gold_file
    /\ score_reported' = TRUE
    /\ outcome' = "ok"
    /\ pc' = "exited"
    /\ UNCHANGED <<fwd_vars, lstm_vars, mode, args, i, train_state, n_predict, written>>

\* Line 309, condition false.
EvalNoGold ==
    /\ pc = "score"
    /\ ~args.gold_file
    /\ outcome' = "ok"
    /\ pc' = "exited"
    /\ UNCHANGED <<fwd_vars, lstm_vars, mode, args, i, train_state, eval_state>>

\* ------------------------------------------------------------- specification
Next ==
    \/ Main
    \/ TrainSkip
    \/ TrainStart
    \/ ForBatch
    \/ EpochExhausted
    \/ Unfreeze
    \/ Update
    \/ Evaluate
    \/ NoEvaluate
    \/ SwitchAMSGrad
    \/ PatienceStop
    \/ PatienceOk
    \/ MaxStepsStop
    \/ NextBatch
    \/ LeaveLoop
    \/ Reshuffle
    \/ Report
    \/ EvalPredict
    \/ EvalSkip
    \/ EvalWrite
    \/ EvalScore
    \/ EvalNoGold

Spec == Init /\ [][Next]_vars

\* The controller is a single sequential thread (no step waits on anything):
\* whenever a step is possible, one is taken.
FairSpec == Init /\ [][Next]_vars /\ WF_vars(Next)

\* ------------------------------------------------------------- Parser.forward
\* Scores are integers; -float('inf') is a value below every finite score.
\* The real-valued functions of the code are modelled in base 2 on integers:
\* a log-probability or a loss term is the pair <<num, den>> of the
\* probability ratio it is the logarithm of, so that a softmax entry is zero
\* exactly when its num is 0 and a loss term is zero exactly when num = den.
NegInf == -1000000

\* nn.CrossEntropyLoss(ignore_index=-1).
IgnoreIndex == -1

\* Token positions of a row padded to T tokens; position 0 is the root.
Pos(T) == 0..(T - 1)

\* Dependent positions: every position but the root.
Deps(T) == 1..(T - 1)

\* Relation labels: the indices of vocab['deprel'] (a vocabulary of two labels).
Labels == {0, 1}

\* len(vocab['deprel']).
NumLabels == Cardinality(Labels)

\* word.size(1), the padded lengths of the rows forward is invoked on (root
\* included). Line 236 returns any of the NumLabels^(T*T) label arrays of a
\* row, and every one of them is a successor of the invocation: the lengths
\* and the labels are those for which all of these arrays are enumerated.
PaddedLengths == {2, 3}

\* Tensor addition on scores: -inf + y = -inf.
ScoreAdd(x, y) == IF x = NegInf \/ y = NegInf THEN NegInf ELSE x + y

\* torch.sign.
Sign(x) == IF x > 0 THEN 1 ELSE IF x < 0 THEN -1 ELSE 0

\* torch.abs.
Abs(x) == IF x < 0 THEN -x ELSE x

\* F.logsigmoid on integers: negative and non-decreasing, like log(sigmoid(x)).
LogSigmoid(x) == IF x >= 0 THEN -1 ELSE x - 1

\* F.softplus on integers: non-negative and non-decreasing.
Softplus(x) == IF x > 0 THEN x ELSE 0

\* Line 199 on integers: -log((target - pred)^2 / 2 + 1), which is 0 when the
\* predicted distance is the target and decreases with their difference.
DistKld(target, pred) == -((target - pred) * (target - pred))

\* Lines 188-189: head_offset[i][j] = j - i.
HeadOffset(ii, j) == j - ii

\* The outputs of the scorers (opaque networks with dropout) for a row of T
\* tokens: one family of small integer tensors per scorer, indexed by a seed.
ArcOut(T, seed) ==
    [ii \in Pos(T) |-> [j \in Pos(T) |-> (seed * (ii + 1) + j * (seed + 2) + ii * j) % 3]]

DeprelOut(T, seed) ==
    [ii \in Pos(T) |-> [j \in Pos(T) |->
        [l \in Labels |-> (seed + ii + 2 * j + l * (seed + ii + 1)) % 3]]]

LinOut(T, seed) ==
    [ii \in Pos(T) |-> [j \in Pos(T) |-> ((seed + 2 * ii + j) % 3) - 1]]

DistOut(T, seed) ==
    [ii \in Pos(T) |-> [j \in Pos(T) |-> ((seed + ii + ii * j) % 3) - 1]]

\* Line 236: np.random.randn(..., L).argmax(-1), an array of independent
\* label indices, any of the NumLabels^(T*T) arrays over 0..L-1. The arrays
\* are numbered by the draw r: entry (ii, j) is digit ii * T + j of r written
\* in base NumLabels, so different draws give different arrays and the draws
\* 0..NumLabels^(T*T)-1 give every array.
RandomLabels(T, r) ==
    [ii \in Pos(T) |-> [j \in Pos(T) |->
        (r \div (NumLabels ^ (ii * T + j))) % NumLabels]]

\* The draws of one call of line 236 on a row of T positions, one per label
\* array: the generator is in any state, whatever the row, the scores and
\* the earlier calls.
RandomDraws(T) == 0..(NumLabels ^ (T * T) - 1)

\* Gold heads of a row of T positions whose first n are real tokens: a real
\* dependent's head is another real token; a padded position holds any index.
Heads(T, n) ==
    {h \in [Deps(T) -> Pos(T)] : \A k \in Deps(T) : k < n => (h[k] < n /\ h[k] # k)}

\* Gold relation labels.
GoldDeprel(T, seed) == [k \in Deps(T) |-> (seed + k) % NumLabels]

\* The rows forward is invoked on: padded length T (root included), true
\* length len (the root counts, so a row without words has len 1 and all of
\* its dependent positions are padding), gold heads and labels, and the seed
\* of the scorers' outputs. nwords is the row's share of wordchars.size(0).
Batches ==
    UNION {UNION {{[T |-> T, len |-> n, head |-> h, deprel |-> GoldDeprel(T, sd),
                    seed |-> sd, nwords |-> n - 1] :
                        h \in Heads(T, n), sd \in 0..MaxSeed} :
                  n \in 1..T} :
           T \in PaddedLengths}

\* word_mask: the positions beyond the true length.
WordMask(j) == j >= batch.len

RECURSIVE SetSum(_, _)
\* The sum of f over the finite set S.
SetSum(f, S) ==
    IF S = {} THEN 0
    ELSE LET x == CHOOSE y \in S : TRUE IN f[x] + SetSum(f, S \ {x})

\* The least finite entry of a score row (0 when none is finite).
RowMin(row) ==
    LET fin == {k \in DOMAIN row : row[k] # NegInf}
    IN  IF fin = {} THEN 0
        ELSE row[CHOOSE k \in fin : \A k2 \in fin : row[k] <= row[k2]]

\* 2^(x - m), and 0 for x = -inf.
Pow2(x, m) == IF x = NegInf THEN 0 ELSE 2 ^ (x - m)

\* The denominator of the softmax of a row, scaled by 2^(-RowMin).
RowSum(row) ==
    SetSum([k \in DOMAIN row |-> Pow2(row[k], RowMin(row))], DOMAIN row)

\* The softmax probability of class k of a row, as <<num, den>>.
Softmax(row, k) == <<Pow2(row[k], RowMin(row)), RowSum(row)>>

\* F.log_softmax(x, 2): every entry is the logarithm of Softmax.
LogSoftmax(x) == [ii \in DOMAIN x |-> [j \in DOMAIN x[ii] |-> Softmax(x[ii], j)]]

\* The cross-entropy of a row for target t: -log of its softmax probability,
\* the logarithm of <<den, num>> of Softmax.
CrossEntropy(row, t) == <<RowSum(row), Pow2(row[t], RowMin(row))>>

\* A criterion without ignore_index: a row whose target is the sentinel is
\* given a term as well.
Crit_IgnoreNone(kind, rows, target) ==
    {[kind |-> kind, pos |-> ii,
      num |-> IF target[ii] = IgnoreIndex THEN RowSum(rows[ii])
              ELSE CrossEntropy(rows[ii], target[ii])[1],
      den |-> IF target[ii] = IgnoreIndex THEN 1
              ELSE CrossEntropy(rows[ii], target[ii])[2]] :
        ii \in DOMAIN rows}

\* self.crit, CrossEntropyLoss(ignore_index=-1, reduction='sum'): the terms
\* of the sum, one per row whose target is not the ignore index.
Crit(kind, rows, target) ==
    {[kind |-> kind, pos |-> ii,
      num |-> CrossEntropy(rows[ii], target[ii])[1],
      den |-> CrossEntropy(rows[ii], target[ii])[2]] :
        ii \in {k \in DOMAIN rows : target[k] # IgnoreIndex}}

\* deprel_scores.max(3)[1]: the index of the first maximal label score.
ArgMaxLabel(v) ==
    CHOOSE l \in DOMAIN v :
        /\ \A l2 \in DOMAIN v : v[l2] <= v[l]
        /\ \A l2 \in DOMAIN v : l2 < l => v[l2] < v[l]

\* Line 231: the loss of inference mode, the integer 0.
ZeroLoss == [tensor |-> FALSE, terms |-> {}, div |-> 1]

\* Parser.__init__ (nn.Module): a new module is in training mode.
FwdInit ==
    /\ margs \in [linearization : BOOLEAN, distance : BOOLEAN, deprel_loss : BOOLEAN]
    /\ training = TRUE
    /\ mode_log = << >>
    /\ f_pc = "idle"
    /\ batch = Unassigned
    /\ FwdLocalsFresh

\* The controller does not run in the scorer's specification.
CtlOff ==
    /\ mode = "train"
    /\ args = [max_steps |-> 1, eval_interval |-> 1, max_steps_before_stop |-> 1,
               unfreeze_points |-> << >>, num_layers |-> 1, n_train |-> 0,
               n_dev |-> 0, n_eval |-> 0, gold_file |-> TRUE]
    /\ pc = "off"
    /\ CtlZero

InitFwd == CtlOff /\ FwdInit /\ LstmOff

\* Line 119: the caller has set the training flag (model.train() or
\* model.eval()) and invokes forward on a batch; the locals are fresh.
FwdCall ==
    /\ f_pc = "idle"
    /\ Len(mode_log) < MaxCalls
    /\ \E t \in BOOLEAN, b \in Batches :
        /\ training' = t
        /\ mode_log' = Append(mode_log, t)
        /\ batch' = b
    /\ unlabeled_scores' = Unassigned
    /\ deprel_scores' = Unassigned
    /\ lin_scores' = Unassigned
    /\ dist_kld' = Unassigned
    /\ unlabeled_target' = Unassigned
    /\ loss' = NoLoss
    /\ preds' = Unassigned
    /\ f_pc' = "score"
    /\ UNCHANGED <<ctl_vars, lstm_vars, margs>>

\* Lines 182-185: the arc scores and, with deprel_loss, the label scores.
FwdScore ==
    /\ f_pc = "score"
    /\ unlabeled_scores' = ArcOut(batch.T, batch.seed)
    /\ deprel_scores' = IF margs.deprel_loss THEN DeprelOut(batch.T, batch.seed)
                        ELSE deprel_scores
    /\ f_pc' = "lin"
    /\ UNCHANGED <<ctl_vars, lstm_vars, margs, training, mode_log, batch, lin_scores, dist_kld,
                   unlabeled_target, loss, preds>>

\* Lines 191-193: the linearization term is added to the arc scores.
FwdLinearization ==
    /\ f_pc = "lin"
    /\ margs.linearization
    /\ lin_scores' = LinOut(batch.T, batch.seed)
    /\ unlabeled_scores' =
          [ii \in Pos(batch.T) |-> [j \in Pos(batch.T) |->
              ScoreAdd(unlabeled_scores[ii][j],
                       LogSigmoid(lin_scores'[ii][j] * Sign(HeadOffset(ii, j))))]]
    /\ f_pc' = "dist"
    /\ UNCHANGED <<ctl_vars, lstm_vars, margs, training, mode_log, batch, deprel_scores,
                   dist_kld, unlabeled_target, loss, preds>>

\* Line 191, condition false.
FwdNoLinearization ==
    /\ f_pc = "lin"
    /\ ~margs.linearization
    /\ f_pc' = "dist"
    /\ UNCHANGED <<ctl_vars, lstm_vars, margs, training, mode_log, batch, unlabeled_scores,
                   deprel_scores, lin_scores, dist_kld, unlabeled_target, loss, preds>>

\* Lines 195-200: the distance term is added to the arc scores.
FwdDistance ==
    /\ f_pc = "dist"
    /\ margs.distance
    /\ dist_kld' =
          [ii \in Pos(batch.T) |-> [j \in Pos(batch.T) |->
              DistKld(Abs(HeadOffset(ii, j)),
                      1 + Softplus(DistOut(batch.T, batch.seed)[ii][j]))]]
    /\ unlabeled_scores' =
          [ii \in Pos(batch.T) |-> [j \in Pos(batch.T) |->
              ScoreAdd(unlabeled_scores[ii][j], dist_kld'[ii][j])]]
    /\ f_pc' = "mask"
    /\ UNCHANGED <<ctl_vars, lstm_vars, margs, training, mode_log, batch, deprel_scores,
                   lin_scores, unlabeled_target, loss, preds>>

\* Line 195, condition false.
FwdNoDistance ==
    /\ f_pc = "dist"
    /\ ~margs.distance
    /\ f_pc' = "mask"
    /\ UNCHANGED <<ctl_vars, lstm_vars, margs, training, mode_log, batch, unlabeled_scores,
                   deprel_scores, lin_scores, dist_kld, unlabeled_target, loss, preds>>

DiagMasked_SkipRoot(ii, j) == ii = j /\ ii > 0

\* Line 202: torch.eye(head.size(-1) + 1), one row and column per position.
DiagMasked(ii, j) == ii = j

\* Lines 202-205: the diagonal is filled with -inf in place; preds = [].
FwdMask ==
    /\ f_pc = "mask"
    /\ unlabeled_scores' =
          [ii \in Pos(batch.T) |-> [j \in Pos(batch.T) |->
              IF DiagMasked(ii, j) THEN NegInf ELSE unlabeled_scores[ii][j]]]
    /\ preds' = << >>
    /\ f_pc' = "branch"
    /\ UNCHANGED <<ctl_vars, lstm_vars, margs, training, mode_log, batch, deprel_scores,
                   lin_scores, dist_kld, unlabeled_target, loss>>

InTrainingMode_Always == TRUE

\* Line 207: self.training.
InTrainingMode == training

\* Lines 207-210: the root row is dropped, padded heads are masked and the
\* targets of padded dependents are set to the ignore index.
FwdTrainMask ==
    /\ f_pc = "branch"
    /\ InTrainingMode
    /\ unlabeled_scores' =
          [ii \in Deps(batch.T) |-> [j \in Pos(batch.T) |->
              IF WordMask(j) THEN NegInf ELSE unlabeled_scores[ii][j]]]
    /\ unlabeled_target' =
          [ii \in Deps(batch.T) |-> IF WordMask(ii) THEN IgnoreIndex ELSE batch.head[ii]]
    /\ f_pc' = "crit"
    /\ UNCHANGED <<ctl_vars, lstm_vars, margs, training, mode_log, batch, deprel_scores,
                   lin_scores, dist_kld, loss, preds>>

\* Line 211: the head-selection terms.
HeadTerms == Crit("head", unlabeled_scores, unlabeled_target)

\* Lines 214-215: the label scores of every dependent at its gold head.
DeprelGathered ==
    [ii \in Deps(batch.T) |-> deprel_scores[ii][batch.head[ii]]]

\* Line 216: the label targets, padded dependents ignored.
DeprelTarget ==
    [ii \in Deps(batch.T) |-> IF WordMask(ii) THEN IgnoreIndex ELSE batch.deprel[ii]]

\* Lines 213-217: the relation-label terms.
DeprelTerms ==
    IF margs.deprel_loss THEN Crit("deprel", DeprelGathered, DeprelTarget) ELSE {}

\* Lines 220-221: the two-way scores [-s/2, s/2] of every dependent, s its
\* linearization score at the gold head; they are kept as [0, s], which has
\* the same softmax.
LinGathered ==
    [ii \in Deps(batch.T) |-> [c \in {0, 1} |->
        IF c = 0 THEN 0 ELSE lin_scores[ii][batch.head[ii]]]]

\* Line 222: the direction targets, 1 when the gold head is to the right.
LinTarget ==
    [ii \in Deps(batch.T) |-> IF HeadOffset(ii, batch.head[ii]) > 0 THEN 1 ELSE 0]

\* Lines 219-223: the linearization terms.
LinTerms ==
    IF margs.linearization THEN Crit("lin", LinGathered, LinTarget) ELSE {}

\* Line 226: the distance penalty of every dependent at its gold head.
DistGathered ==
    [ii \in Deps(batch.T) |-> dist_kld[ii][batch.head[ii]]]

\* Lines 225-227: loss -= dist_kld.sum(), one term per gathered entry.
DistTerms ==
    IF margs.distance
    THEN {[kind |-> "dist", pos |-> ii, num |-> 2 ^ (-DistGathered[ii]), den |-> 1] :
            ii \in Deps(batch.T)}
    ELSE {}

\* Lines 211-229 and 238: the loss of training mode, the sum of its terms
\* divided by the number of words; the prediction list stays empty.
FwdTrainLoss ==
    /\ f_pc = "crit"
    /\ loss' = [tensor |-> TRUE,
                terms |-> HeadTerms \cup DeprelTerms \cup LinTerms \cup DistTerms,
                div |-> batch.nwords]
    /\ deprel_scores' = IF margs.deprel_loss THEN DeprelGathered ELSE deprel_scores
    /\ lin_scores' = IF margs.linearization THEN LinGathered ELSE lin_scores
    /\ dist_kld' = IF margs.distance THEN DistGathered ELSE dist_kld
    /\ f_pc' = "ret"
    /\ UNCHANGED <<ctl_vars, lstm_vars, margs, training, mode_log, batch, unlabeled_scores,
                   unlabeled_target, preds>>

\* Lines 233-236: the second prediction array.
LabelPreds(r) ==
    IF margs.deprel_loss
    THEN [ii \in Pos(batch.T) |-> [j \in Pos(batch.T) |->
            ArgMaxLabel(deprel_scores[ii][j])]]
    ELSE RandomLabels(batch.T, r)

\* Lines 232-236: the prediction list of inference mode, r the draw of the
\* generator.
InferencePreds(r) == <<LogSoftmax(unlabeled_scores), LabelPreds(r)>>

\* Lines 230-238: inference mode.
FwdInference ==
    /\ f_pc = "branch"
    /\ ~InTrainingMode
    /\ loss' = ZeroLoss
    /\ \E r \in (IF margs.deprel_loss THEN {0} ELSE RandomDraws(batch.T)) :
          preds' = preds \o InferencePreds(r)
    /\ f_pc' = "ret"
    /\ UNCHANGED <<ctl_vars, lstm_vars, margs, training, mode_log, batch, unlabeled_scores,
                   deprel_scores, lin_scores, dist_kld, unlabeled_target>>

\* Line 238: forward has returned and the caller has taken loss and preds;
\* the locals of the invocation are gone, the module keeps its flag.
FwdReturn ==
    /\ f_pc = "ret"
    /\ batch' = Unassigned
    /\ unlabeled_scores' = Unassigned
    /\ deprel_scores' = Unassigned
    /\ lin_scores' = Unassigned
    /\ dist_kld' = Unassigned
    /\ unlabeled_target' = Unassigned
    /\ loss' = NoLoss
    /\ preds' = Unassigned
    /\ f_pc' = "idle"
    /\ UNCHANGED <<ctl_vars, lstm_vars, margs, training, mode_log>>

NextFwd ==
    \/ FwdCall
    \/ FwdScore
    \/ FwdLinearization
    \/ FwdNoLinearization
    \/ FwdDistance
    \/ FwdNoDistance
    \/ FwdMask
    \/ FwdTrainMask
    \/ FwdTrainLoss
    \/ FwdInference
    \/ FwdReturn

SpecFwd == InitFwd /\ [][NextFwd]_vars

\* ------------------------------------------------ Parser.forward, lines 157-180
\* The recurrent part of forward on one row of the batch. A token vector is a
\* small integer, 0 at the padded positions; the hidden state of a stack at a
\* position is represented by what determines it, the stack and the sequence
\* of vectors the stack has consumed up to that position.
MaxTok == 2

\* The distinct token vectors of a row.
Tokens == 1..MaxTok

\* The rows: padded to T positions, the first n of them real (root included).
LstmRows ==
    UNION {UNION {{[x |-> [t \in 1..T |-> IF t <= n THEN w[t] ELSE 0], n |-> n] :
                        w \in [1..n -> Tokens]} :
                  n \in 1..T} :
           T \in 1..MaxT}

\* The output of pad_packed_sequence at a padded position.
ZeroState == [stack |-> "none", seen |-> << >>]

\* reverse_padded_sequence(x, lengths, batch_first=True): the first n entries
\* are reversed in place and the padding stays at the tail.
ReversePaddedSequence(x, n) ==
    [t \in 1..Len(x) |-> IF t <= n THEN x[n + 1 - t] ELSE x[t]]

\* Lines 120-121, pack_padded_sequence: the real entries of the row.
Pack(x, n) == SubSeq(x, 1, n)

\* pad_packed_sequence(h, batch_first=True): padded with zeros to T positions.
PadPacked(h, T) == [t \in 1..T |-> IF t <= Len(h) THEN h[t] ELSE ZeroState]

\* A unidirectional recurrent stack run over x: its state at position t is
\* the state after consuming x[1], ..., x[t] in this order.
RunStack(stack, x) ==
    [t \in 1..Len(x) |-> [stack |-> stack, seen |-> SubSeq(x, 1, t)]]

\* HighwayLSTM called with a padded row and its length: it runs over the real
\* entries only (packed-sequence semantics) and returns a packed output.
HighwayLSTM(stack, x, n) == RunStack(stack, Pack(x, n))

\* MultiLayerLSTM called with a padded row: it runs over every position.
MultiLayerLSTM(stack, x) == RunStack(stack, x)

\* torch.cat([a, b], -1): position by position.
Cat(a, b) == [t \in 1..Len(a) |-> <<a[t], b[t]>>]

\* The bidirectional HighwayLSTM on a packed row: at position t the forward
\* direction has consumed x[1..t] and the backward direction x[n], ..., x[t].
BiHighwayLSTM(px) ==
    Cat(RunStack("forward", px),
        ReversePaddedSequence(
            RunStack("backward", ReversePaddedSequence(px, Len(px))), Len(px)))

\* Parser.__init__, line 77-91: the variant is fixed by the configuration.
LstmInit ==
    /\ lstm_type \in {"bihlstm", "hlstm", "wdlstm"}
    /\ l_pc = "idle"
    /\ LstmLocalsFresh

InitLstm == CtlOff /\ FwdOff /\ LstmInit

\* Lines 157-159: forward is invoked on a row; lstm_inputs is the fused token
\* vectors of the row.
LstmCall ==
    /\ l_pc \in {"idle", "done"}
    /\ \E r \in LstmRows :
        /\ lstm_inputs' = r.x
        /\ sentlens' = r.n
    /\ rev_lstm_inputs' = Unassigned
    /\ hid_forward' = Unassigned
    /\ hid_backward' = Unassigned
    /\ lstm_outputs' = Unassigned
    /\ l_pc' = "reverse"
    /\ UNCHANGED <<ctl_vars, fwd_vars, lstm_type>>

\* Line 160.
LstmReverse ==
    /\ l_pc = "reverse"
    /\ rev_lstm_inputs' = ReversePaddedSequence(lstm_inputs, sentlens)
    /\ l_pc' = "branch"
    /\ UNCHANGED <<ctl_vars, fwd_vars, lstm_type, sentlens, lstm_inputs,
                   hid_forward, hid_backward, lstm_outputs>>

\* Lines 162-167: the single bidirectional stack.
BiHlstm ==
    /\ l_pc = "branch"
    /\ lstm_type = "bihlstm"
    /\ lstm_inputs' = Pack(lstm_inputs, sentlens)
    /\ lstm_outputs' = PadPacked(BiHighwayLSTM(lstm_inputs'), Len(lstm_inputs))
    /\ l_pc' = "done"
    /\ UNCHANGED <<ctl_vars, fwd_vars, lstm_type, sentlens, rev_lstm_inputs,
                   hid_forward, hid_backward>>

\* Line 170: the argument of self.lstm_forward.
HlstmForwardInput == lstm_inputs

\* Line 171: the argument of self.lstm_backward.
HlstmBackwardInput == lstm_inputs

\* Lines 168-173: the two highway stacks and the padding of their outputs.
HlstmStacks ==
    /\ l_pc = "branch"
    /\ lstm_type = "hlstm"
    /\ rev_lstm_inputs' = Pack(rev_lstm_inputs, sentlens)
    /\ hid_forward' =
          PadPacked(HighwayLSTM("forward", HlstmForwardInput, sentlens),
                    Len(lstm_inputs))
    /\ hid_backward' =
          PadPacked(HighwayLSTM("backward", HlstmBackwardInput, sentlens),
                    Len(lstm_inputs))
    /\ l_pc' = "cat"
    /\ UNCHANGED <<ctl_vars, fwd_vars, lstm_type, sentlens, lstm_inputs,
                   lstm_outputs>>

\* Lines 176-178: the two weight-drop stacks.
WdlstmStacks ==
    /\ l_pc = "branch"
    /\ lstm_type = "wdlstm"
    /\ hid_forward' = MultiLayerLSTM("forward", lstm_inputs)
    /\ hid_backward' = MultiLayerLSTM("backward", rev_lstm_inputs)
    /\ l_pc' = "cat"
    /\ UNCHANGED <<ctl_vars, fwd_vars, lstm_type, sentlens, lstm_inputs,
                   rev_lstm_inputs, lstm_outputs>>

\* Lines 174-175 and 179-180: the backward output is reversed with the same
\* lengths and concatenated with the forward output.
LstmCat ==
    /\ l_pc = "cat"
    /\ hid_backward' = ReversePaddedSequence(hid_backward, sentlens)
    /\ lstm_outputs' = Cat(hid_forward, hid_backward')
    /\ l_pc' = "done"
    /\ UNCHANGED <<ctl_vars, fwd_vars, lstm_type, sentlens, lstm_inputs,
                   rev_lstm_inputs, hid_forward>>

NextLstm ==
    \/ LstmCall
    \/ LstmReverse
    \/ BiHlstm
    \/ HlstmStacks
    \/ WdlstmStacks
    \/ LstmCat

SpecLstm == InitLstm /\ [][NextLstm]_vars

\* ------------------------------------------------------------- claims
\* The step that runs an evaluation round (lines 208-242).
EvalRoundStep == pc = "eval" /\ pc' = "patience" /\ eval_log' # eval_log

\* C1: at every evaluation round the model is checkpointed, best_dev_preds is
\* replaced and last_best_step is set to the current global_step if and only
\* if the new dev score is strictly greater than every dev score recorded so
\* far (the first round, with an empty history, counts as greater); an equal
\* or lower score leaves the checkpoint, best_dev_preds and last_best_step as
\* they were.
C1_CheckpointIffNewBest ==
    [][EvalRoundStep =>
        LET new == dev_score_history'[Len(dev_score_history')]
            exceeds == \A k \in 1..Len(dev_score_history) : new > dev_score_history[k]
        IN  IF exceeds
            THEN /\ checkpoint' = global_step
                 /\ n_saves' = n_saves + 1
                 /\ best_dev_preds' = global_step
                 /\ last_best_step' = global_step
            ELSE /\ checkpoint' = checkpoint
                 /\ n_saves' = n_saves
                 /\ best_dev_preds' = best_dev_preds
                 /\ last_best_step' = last_best_step]_vars

\* Three rounds: a first best, an equal score that saved nothing, then a
\* higher score that replaced the checkpoint.
C1_Witness ==
    /\ Len(dev_score_history) = 3
    /\ dev_score_history[2] = dev_score_history[1]
    /\ dev_score_history[3] > dev_score_history[2]
    /\ n_saves = 2
    /\ checkpoint = eval_log[3]
    /\ best_dev_preds = eval_log[3]
    /\ pc = "patience"

\* C2: in any run the optimizer is switched to AMSGrad at most once, and a run
\* that terminated for patience-exhausted has switched exactly once, at an
\* earlier step.
C2_SwitchAtMostOnce ==
    /\ Len(switch_log) <= 1
    /\ term_reason = "patience-exhausted" =>
          /\ Len(switch_log) = 1
          /\ optimizer = "amsgrad"
          /\ switch_log[1] < global_step

C2_Witness ==
    /\ term_reason = "patience-exhausted"
    /\ Len(switch_log) = 1
    /\ Len(dev_score_history) >= 1

\* The patience threshold is reached at the patience check (line 244).
C3_Stalled ==
    /\ pc = "patience"
    /\ global_step - last_best_step >= args.max_steps_before_stop

\* First stall: the optimizer is replaced and the counter reset, and nothing
\* else of the training state changes.
C3_FirstStallStep ==
    (C3_Stalled /\ ~using_amsgrad) =>
        /\ optimizer' = "amsgrad"
        /\ using_amsgrad'
        /\ switch_log' = Append(switch_log, global_step)
        /\ global_step' - last_best_step' = 0
        /\ UNCHANGED <<global_step, dev_score_history, unfreeze_p, unfreeze_log,
                       checkpoint, n_saves, best_dev_preds, n_updates, do_break,
                       term_reason, i>>

\* Second stall: the loop is left at that step, and no update follows.
C3_SecondStallStep ==
    /\ (C3_Stalled /\ using_amsgrad) =>
          /\ do_break'
          /\ term_reason' = "patience-exhausted"
          /\ UNCHANGED <<optimizer, switch_log, global_step, n_updates>>
    /\ term_reason # "none" => UNCHANGED <<global_step, n_updates, optimizer>>

\* The step ceiling check that follows a switch made at this step.
C3_AfterSwitch ==
    /\ pc = "maxcheck"
    /\ switch_log # << >>
    /\ switch_log[Len(switch_log)] = global_step

\* C3 as stated: after the first stall's switch the loop always goes on with
\* the next batch.
C3_SwitchAlwaysGoesOn ==
    [][/\ C3_FirstStallStep
       /\ C3_SecondStallStep
       /\ C3_AfterSwitch => (pc' = "fetch" /\ term_reason' = "none")]_vars

\* C3, amended: the first stall replaces the optimizer by its AMSGrad variant
\* and resets the steps-since-best counter, leaving global_step, the history,
\* the unfreeze pointer, the checkpoint and best_dev_preds unchanged; the loop
\* then goes on with the next batch unless global_step has reached max_steps
\* at that same step, in which case it terminates for max-steps; the second
\* stall terminates the loop with no further update.
C3_SwitchKeepsTraining ==
    [][/\ C3_FirstStallStep
       /\ C3_SecondStallStep
       /\ C3_AfterSwitch =>
             IF global_step < args.max_steps
             THEN pc' = "fetch" /\ term_reason' = "none"
             ELSE term_reason' = "max-steps" /\ n_updates' = n_updates]_vars

\* A run that saved a checkpoint, switched at a later step, trained on and
\* was stopped by the second stall.
C3_Witness ==
    /\ term_reason = "patience-exhausted"
    /\ checkpoint > 0
    /\ Len(switch_log) = 1
    /\ checkpoint < switch_log[1]
    /\ switch_log[1] < global_step
    /\ n_updates = global_step

\* The configuration of C4, with data in both splits.
C4_Config ==
    /\ mode = "train"
    /\ args.max_steps = 1
    /\ args.eval_interval > 1
    /\ args.n_train > 0
    /\ args.n_dev > 0

\* C4: with max_steps = 1 and eval_interval > 1, train() makes exactly one
\* update, runs no evaluation round and leaves the loop for max-steps.
C4_OneUpdateNoEval ==
    /\ [](C4_Config =>
            /\ n_updates <= 1
            /\ eval_log = << >>
            /\ dev_score_history = << >>
            /\ n_saves = 0
            /\ term_reason \in {"none", "max-steps"})
    /\ (C4_Config ~> (term_reason = "max-steps" /\ n_updates = 1 /\ pc = "exited"))

C4_Witness ==
    /\ C4_Config
    /\ term_reason = "max-steps"
    /\ n_updates = 1
    /\ eval_log = << >>
    /\ pc = "exited"

\* C5: the step loop terminates; global_step grows by exactly one per update,
\* never exceeds max_steps, and no batch is started once global_step has
\* reached max_steps, whatever the patience state and the number of epochs.
C5_StepCeiling ==
    /\ [](/\ global_step <= args.max_steps
          /\ n_updates = global_step
          /\ pc \in {"fetch", "unfreeze"} => global_step < args.max_steps)
    /\ [][/\ global_step' \in {global_step, global_step + 1}
          /\ (n_updates' # n_updates) <=> (global_step' = global_step + 1)]_vars
    /\ ((pc = "fetch") ~> (term_reason # "none" /\ pc = "exited"))

\* The ceiling is reached after several epochs, with the optimizer switched.
C5_Witness ==
    /\ term_reason = "max-steps"
    /\ global_step = args.max_steps
    /\ n_reshuffles >= 2
    /\ using_amsgrad
    /\ pc = "exited"

\* C6 as stated: an evaluation round runs exactly at the positive multiples
\* of eval_interval and appends exactly one dev score; dev_score_history is
\* append-only and in every reachable state its length is
\* floor(global_step / eval_interval).
C6_LengthInEveryState ==
    /\ [](/\ Len(dev_score_history) = global_step \div args.eval_interval
          /\ Len(eval_log) = Len(dev_score_history)
          /\ \A k \in 1..Len(eval_log) : eval_log[k] = k * args.eval_interval)
    /\ [][/\ IsPrefix(dev_score_history, dev_score_history')
          /\ Len(dev_score_history') <= Len(dev_score_history) + 1]_vars

\* C6: an evaluation round runs exactly at the positive multiples of
\* eval_interval and appends exactly one dev score; dev_score_history is
\* append-only; its length is floor(global_step / eval_interval) in every
\* state but those between the increment of global_step and the append of a
\* step whose global_step is a multiple of eval_interval (pc = "eval" with a
\* round due), where it is one less.
C6_HistoryLength ==
    /\ [](/\ Len(dev_score_history) =
                IF pc = "eval" /\ global_step % args.eval_interval = 0
                THEN (global_step \div args.eval_interval) - 1
                ELSE global_step \div args.eval_interval
          /\ Len(eval_log) = Len(dev_score_history)
          /\ \A k \in 1..Len(eval_log) : eval_log[k] = k * args.eval_interval)
    /\ [][/\ IsPrefix(dev_score_history, dev_score_history')
          /\ Len(dev_score_history') <= Len(dev_score_history) + 1]_vars

\* C6 witness: one round has run, at step 2, and step 4 has been counted but
\* its round has not appended yet: the history holds one score, one less than
\* floor(4 / 2).
C6_Witness ==
    /\ args.eval_interval = 2
    /\ global_step = 4
    /\ eval_log = <<2>>
    /\ Len(dev_score_history) = 1
    /\ pc = "eval"

\* The next scheduled unfreeze point is the current global_step (line 193).
C7_Due ==
    /\ unfreeze_p < Len(args.unfreeze_points)
    /\ global_step = args.unfreeze_points[unfreeze_p + 1]

\* The k-th unfreeze thaws layer num_layers - k with lr * lr_shrink^k and
\* advances the pointer by one, before the step's update; with no point due
\* nothing is thawed and the pointer stays.
C7_Thaw ==
    /\ [][/\ (pc = "unfreeze" /\ C7_Due) =>
                LET k == Len(unfreeze_log) + 1
                IN  /\ unfreeze_log' =
                          Append(unfreeze_log, <<args.num_layers - k, k, global_step>>)
                    /\ unfreeze_p' = unfreeze_p + 1
                    /\ UNCHANGED <<global_step, n_updates>>
          /\ ~(pc = "unfreeze" /\ C7_Due) =>
                UNCHANGED <<unfreeze_log, unfreeze_p>>
          /\ (n_updates' # n_updates) => (pc = "unfreeze" /\ ~C7_Due)]_vars
    /\ [](unfreeze_p = Len(unfreeze_log))

\* At most one layer is thawed before any one step.
C7_OnePerStep ==
    \A a, b \in 1..Len(unfreeze_log) :
        a # b => unfreeze_log[a][3] # unfreeze_log[b][3]

\* C7 as stated: a matching point thaws exactly one layer before the step.
C7_ExactlyOneLayerPerStep == C7_Thaw /\ []C7_OnePerStep

\* C7, amended: before each step, for every next scheduled unfreeze point
\* that equals the current global_step (a point listed twice matches twice),
\* one more layer is thawed: the k-th unfreeze of a run thaws layer
\* num_layers - k with lr * lr_shrink^k and advances the pointer by one; when
\* global_step does not match the next point nothing is thawed and the
\* pointer is unchanged.
C7_OneLayerPerMatchingPoint == C7_Thaw /\ [](Len(unfreeze_log) <= Len(args.unfreeze_points))

\* Two layers thawed before the same step, the step then taken.
C7_Witness ==
    /\ Len(unfreeze_log) = 2
    /\ unfreeze_log[1][3] = unfreeze_log[2][3]
    /\ unfreeze_log[1][1] = args.num_layers - 1
    /\ unfreeze_log[2][1] = args.num_layers - 2
    /\ n_updates > unfreeze_log[2][3]

\* C8: empty splits are skipped: in train mode with no training or no dev
\* batch the run ends successfully before any update, evaluation round or
\* checkpoint write; in predict mode with no batch no prediction pass is run,
\* the run ends without an error and no score is reported.
C8_EmptySplitsSkipped ==
    /\ (mode = "train" /\ (args.n_train = 0 \/ args.n_dev = 0)) =>
          /\ n_updates = 0
          /\ eval_log = << >>
          /\ n_saves = 0
          /\ outcome \in {"running", "exit0"}
          /\ pc = "exited" => outcome = "exit0"
    /\ (mode = "predict" /\ args.n_eval = 0) =>
          /\ n_predict = 0
          /\ outcome \in {"running", "ok"}
          /\ ~score_reported

\* C9: forward selects its mode from the training flag of the invocation
\* alone, whatever the flags of the invocations before it: in training mode
\* it returns a loss tensor and an empty prediction list; in inference mode
\* it returns the loss 0 and exactly two prediction arrays, first the head
\* log-distribution (every row a distribution over the T candidate heads),
\* second a relation label in 0..L-1 for every pair, which is a label of
\* maximal score when label scoring is enabled.
C9_ModePerInvocation ==
    f_pc = "ret" =>
        IF mode_log[Len(mode_log)]
        THEN /\ loss.tensor
             /\ preds = << >>
        ELSE /\ ~loss.tensor
             /\ loss.terms = {}
             /\ Len(preds) = 2
             /\ DOMAIN preds[1] = Pos(batch.T)
             /\ \A ii \in Pos(batch.T) :
                   /\ DOMAIN preds[1][ii] = Pos(batch.T)
                   /\ \A j \in Pos(batch.T) : preds[1][ii][j][2] > 0
                   /\ SetSum([j \in Pos(batch.T) |-> preds[1][ii][j][1]], Pos(batch.T))
                        = preds[1][ii][0][2]
             /\ \A ii, j \in Pos(batch.T) :
                   /\ preds[2][ii][j] \in Labels
                   /\ margs.deprel_loss =>
                        \A l \in Labels :
                            DeprelOut(batch.T, batch.seed)[ii][j][l]
                              <= DeprelOut(batch.T, batch.seed)[ii][j][preds[2][ii][j]]

\* An inference invocation that follows a training invocation of the same
\* module, with the placeholder labels.
C9_Witness ==
    /\ f_pc = "ret"
    /\ mode_log = <<TRUE, FALSE>>
    /\ ~margs.deprel_loss
    /\ Len(preds) = 2
    /\ ~loss.tensor

\* C10: from the mask on (where the log-softmax or the cross-entropy is
\* applied, and until forward returns) every self-attachment entry of the
\* arc scores is -inf, the root's included, for every length, option and
\* mode; the auxiliary terms are in the scores by then (added before the
\* mask, not over it); and the head distribution returned by inference gives
\* probability zero to every token's own position.
C10_SelfAttachmentMasked ==
    /\ f_pc \in {"branch", "crit", "ret"} =>
          \A ii \in DOMAIN unlabeled_scores : unlabeled_scores[ii][ii] = NegInf
    /\ f_pc = "branch" =>
          /\ DOMAIN unlabeled_scores = Pos(batch.T)
          /\ \A ii, j \in Pos(batch.T) :
                ii # j =>
                    unlabeled_scores[ii][j] =
                        ArcOut(batch.T, batch.seed)[ii][j]
                        + (IF margs.linearization
                           THEN LogSigmoid(lin_scores[ii][j] * Sign(j - ii)) ELSE 0)
                        + (IF margs.distance THEN dist_kld[ii][j] ELSE 0)
    /\ (f_pc = "ret" /\ ~training) =>
          \A ii \in Pos(batch.T) :
              /\ preds[1][ii][ii][1] = 0
              /\ preds[1][ii][ii][2] > 0

\* Inference on a padded row with both auxiliary terms: the root's and the
\* last token's own positions have probability 0.
C10_Witness ==
    /\ f_pc = "ret"
    /\ ~training
    /\ margs.linearization
    /\ margs.distance
    /\ batch.T = 3
    /\ batch.len = 2
    /\ preds[1][0][0][1] = 0
    /\ preds[1][2][2][1] = 0
    /\ preds[1][2][1][1] > 0

\* The terms of one kind in the loss returned by forward.
TermsOf(kind) == {t \in loss.terms : t.kind = kind}

\* The dependent positions that have a term of the given kind in the loss.
TermPositions(kind) == {t.pos : t \in TermsOf(kind)}

\* C11: when forward returns in training mode, the head-selection part of the
\* loss has exactly one term per dependent position whose target is not the
\* ignore sentinel -1, that term is the cross-entropy of the position's score
\* row at its target, and a row all of whose dependent positions are masked
\* (every target is the sentinel) has no head-selection term at all, that is,
\* a head-selection loss of exactly zero.
C11_HeadLossOverUnignored ==
    (f_pc = "ret" /\ loss.tensor) =>
        /\ TermPositions("head") =
              {ii \in Deps(batch.T) : unlabeled_target[ii] # IgnoreIndex}
        /\ \A ii \in Deps(batch.T) :
              unlabeled_target[ii] = IgnoreIndex <=> ii >= batch.len
        /\ \A t \in TermsOf("head") :
              /\ t.num = RowSum(unlabeled_scores[t.pos])
              /\ t.den = Pow2(unlabeled_scores[t.pos][unlabeled_target[t.pos]],
                              RowMin(unlabeled_scores[t.pos]))
              /\ t.den > 0
        /\ \A t1, t2 \in TermsOf("head") : t1.pos = t2.pos => t1 = t2
        /\ (\A ii \in Deps(batch.T) : unlabeled_target[ii] = IgnoreIndex) =>
              TermsOf("head") = {}

\* C11 witness: forward has returned in training mode on a row padded to
\* three positions whose two dependent positions are both masked, and the
\* loss has no head-selection term.
C11_Witness ==
    /\ f_pc = "ret"
    /\ loss.tensor
    /\ batch.T = 3
    /\ \A ii \in Deps(batch.T) : unlabeled_target[ii] = IgnoreIndex
    /\ TermsOf("head") = {}

\* The state of a stack that has consumed the real entries n, n-1, ..., t of
\* the row x, in this order.
StateAfterReversed(stack, x, n, t) ==
    [stack |-> stack, seen |-> [k \in 1..(n + 1 - t) |-> x[n + 1 - k]]]

\* C12: in the two-stack highway variant the backward stack consumes the row
\* reversed per true length, and in the result every real position t pairs
\* the forward state after the entries 1..t with the backward state after
\* the entries len..t.
C12_HlstmPairsForwardWithReversed ==
    lstm_type = "hlstm" =>
        /\ l_pc = "cat" =>
              \A t \in 1..sentlens :
                  /\ hid_forward[t] =
                        [stack |-> "forward", seen |-> SubSeq(lstm_inputs, 1, t)]
                  /\ hid_backward[t] =
                        StateAfterReversed("backward", lstm_inputs, sentlens,
                                           sentlens + 1 - t)
        /\ l_pc = "done" =>
              \A t \in 1..sentlens :
                  lstm_outputs[t] =
                      << [stack |-> "forward", seen |-> SubSeq(lstm_inputs, 1, t)],
                         StateAfterReversed("backward", lstm_inputs, sentlens, t) >>

\* C13: once the step loop of train() has terminated, for max-steps or for
\* patience-exhausted, dev_score_history is non-empty, and the final report
\* is computed without an error.
C13_ReportWellDefined ==
    /\ term_reason # "none" => Len(dev_score_history) > 0
    /\ outcome # "ValueError"
    /\ (mode = "train" /\ pc = "exited" /\ outcome # "exit0") =>
          (outcome = "ok" /\ Len(report) = 2)

\* C14: in every state of train() the unfreeze pointer is at most
\* len(unfreeze_points), every layer index passed to trainer.unfreeze lies in
\* 0..num_layers-1 and no layer index is passed twice; and the pointer never
\* decreases.
C14_UnfreezeWithinLayers ==
    /\ [](/\ unfreeze_p \in 0..Len(args.unfreeze_points)
          /\ \A k \in 1..Len(unfreeze_log) :
                unfreeze_log[k][1] \in 0..(args.num_layers - 1)
          /\ \A k1, k2 \in 1..Len(unfreeze_log) :
                unfreeze_log[k1][1] = unfreeze_log[k2][1] => k1 = k2)
    /\ [][unfreeze_p' >= unfreeze_p]_vars

\* C15: when forward returns in training mode, every term of the loss, of the
\* head-selection, relation-label, linearization and distance kinds alike,
\* comes from a dependent position within the true length of the row: no
\* padded position enters the loss.
C15_PaddedPositionsEnterNoTerm ==
    (f_pc = "ret" /\ loss.tensor) =>
        \A kind \in {"head", "deprel", "lin", "dist"} :
            TermPositions(kind) \subseteq {ii \in Deps(batch.T) : ii < batch.len}

====
